---------------------------- MODULE Spec2Model ----------------------------
(***************************************************************************)
(* A model of the batch-synthesis core of bbhnet:                          *)
(*   libs/data/bbhnet/data/dataloader.py        RandomWaveformDataset      *)
(*   libs/data/bbhnet/data/transforms/whitening.py  WhiteningTransform     *)
(*   libs/trainer/bbhnet/trainer/trainer.py     the epoch loop of train    *)
(*                                                                         *)
(* What is modelled.  An instance is its attribute dictionary: `self` maps *)
(* the names of the attributes that have been assigned to their values, so *)
(* reading an attribute that no line assigned is an AttributeError.  Time  *)
(* series are modelled by their length and windows by their start offset;  *)
(* a batch X is an array of cells, each cell naming the data it holds.     *)
(* numpy's sampling calls are modelled by their contract: choice(a, size,  *)
(* replace=False) is any sequence of `size` distinct values below a and    *)
(* raises ValueError when size > a; randint(n) is any value in [0, n) and  *)
(* raises ValueError when n <= 0.  Calls that only build or convert arrays *)
(* (torch.Tensor, torch.cat, conv1d, np.zeros, np.stack) are modelled by   *)
(* the array they are written to build; torch.stack raises on an empty     *)
(* list.  Fractions are exact rationals with denominator FracDen.          *)
(***************************************************************************)
EXTENDS Integers, Sequences, FiniteSets, TLC

-----------------------------------------------------------------------------
(* Bounds of the model. *)

\* fractions are n / FracDen
FracDen == 2
\* batch_size ranges over 1 .. MaxBatch
MaxBatch == 3
\* batches_per_epoch ranges over 0 .. MaxEpochBatches
MaxEpochBatches == 1
\* kernel_size ranges over 1 .. MaxKernel
MaxKernel == 2
\* a background holds 1 .. MaxBackground samples
MaxBackground == 3
\* a pool holds 1 .. MaxPool examples
MaxPool == 2
\* a pool example holds 1 .. MaxExample samples
MaxExample == 3
\* a WhiteningTransform has 1 .. MaxIfos channels
MaxIfos == 2
\* sample_rate ranges over 1 .. MaxRate
MaxRate == 2
\* the background series handed to fit are numbered 1 .. MaxSeries
MaxSeries == 2
\* max_epochs ranges over 0 .. MaxEpochs
MaxEpochs == 4
\* early_stop ranges over 0 .. MaxEarlyStop
MaxEarlyStop == 2
\* a validation loss is one of 0 .. MaxLoss
MaxLoss == 2

-----------------------------------------------------------------------------
(* State. *)

VARIABLES
    \* the attribute dictionary of the RandomWaveformDataset instance
    self,
    \* the arguments of the constructor call
    call,
    \* the files opened so far by the constructor, in order
    reads,
    \* it[h]: whether caller h holds the iterator that iter(dataset) returned
    it,
    \* the last call made and what it returned or raised
    ret,
    \* the attribute dictionary of the WhiteningTransform instance
    whitener,
    \* the local variables of a call of train()
    trainer

vars == <<self, call, reads, it, ret, whitener, trainer>>

\* the callers that iterate over the dataset
Handles == {1, 2}

\* an attribute has been assigned on the instance
Has(obj, name) == name \in DOMAIN obj

\* obj with attribute `name` assigned
SetAttr(obj, name, value) == (name :> value) @@ obj

\* an instance on which nothing has been assigned yet
NoAttrs == <<>>

\* an (n, ...) array read from a file: its example count and example length
Array(count, length) == [kind |-> "array", count |-> count, length |-> length]

\* Python's None
None == [kind |-> "None", count |-> 0, length |-> 0]

\* a file handle whose file has been closed
Closed == [kind |-> "closed", count |-> 0, length |-> 0]

\* a record of a call: every field a call does not use keeps this value
NoRet ==
    [op |-> "none", outcome |-> "none", line |-> 0, handle |-> 0,
     idx |-> 0, independent |-> FALSE, array |-> "none", N |-> 0,
     X |-> <<>>, y |-> <<>>, samples |-> <<>>, backgrounds |-> <<>>,
     shape |-> <<>>]

\* no constructor call has been made
NoCall == [made |-> FALSE, outcome |-> "none", line |-> 0]

NoWhitener == <<>>

\* no call of train() is under way
NoTrainer == <<>>

-----------------------------------------------------------------------------
(* RandomWaveformDataset.__init__ *)

\* the values a fraction argument is drawn from: -1/FracDen .. (FracDen+1)/FracDen
FracArgs == (0 - 1) .. (FracDen + 1)

\* the lengths of the "hoft" series of a background file
BackgroundFiles == 1 .. MaxBackground

\* the "waveforms" arrays of a waveform file
WaveformFiles ==
    {Array(c, l) : c \in 1 .. MaxPool, l \in 1 .. MaxExample}

\* the "hanford" arrays of a glitch file
GlitchFiles == {Array(MaxPool, MaxExample)}

\* the arguments of a constructor call; a file is given by what it holds, and
\* kernel_length and sample_rate by int(kernel_length * sample_rate)
CtorArgs ==
    [hanford_background : BackgroundFiles,
     livingston_background : BackgroundFiles,
     kernel_size : 1 .. MaxKernel,
     batch_size : 1 .. MaxBatch,
     batches_per_epoch : 0 .. MaxEpochBatches,
     waveform_dataset : {None} \cup WaveformFiles,
     waveform_frac : FracArgs,
     glitch_dataset : {None} \cup GlitchFiles,
     glitch_frac : FracArgs]

\* round(frac * batch_size) for a fraction frac / FracDen >= 0: Python's
\* round, to the nearest integer and to the even one of two nearest
RoundOfProduct(frac, size) ==
    LET q == (frac * size) \div FracDen
        r == (frac * size) % FracDen
    IN  IF 2 * r < FracDen THEN q
        ELSE IF 2 * r > FracDen THEN q + 1
        ELSE IF q % 2 = 0 THEN q ELSE q + 1

\* int(frac * batch_size) for a fraction frac / FracDen >= 0: truncation
IntOfProduct(frac, size) == (frac * size) \div FracDen

\* the constructor raised at `line`, leaving the instance `obj` unreturned
Raised(exc, line, obj, opened) ==
    [outcome |-> exc, line |-> line, self |-> obj, reads |-> opened]

\* lines 107-114: the counts and the remaining attributes
InitCounts(a, obj, opened) ==
    IF ~Has(obj, "waveform_frac")
    THEN Raised("AttributeError", 109, obj, opened)
    ELSE IF ~Has(obj, "glitch_frac")
    THEN Raised("AttributeError", 110, obj, opened)
    ELSE [outcome |-> "returned", line |-> 114, reads |-> opened,
          self |->
            SetAttr(SetAttr(SetAttr(SetAttr(SetAttr(obj,
                "num_waveforms", IntOfProduct(obj.waveform_frac, a.batch_size)),
                "num_glitches", IntOfProduct(obj.glitch_frac, a.batch_size)),
                "kernel_size", a.kernel_size),
                "batch_size", a.batch_size),
                "batches_per_epoch", a.batches_per_epoch)]

\* lines 95-105: the glitch pool
InitGlitches(a, obj, opened) ==
    IF a.glitch_dataset # None
    THEN IF ~(a.glitch_frac > 0)
         THEN Raised("AssertionError", 99, obj, opened)
         ELSE InitCounts(a,
                SetAttr(SetAttr(obj,
                    "hanford_glitches", a.glitch_dataset),
                    "livingston_glitches", Closed),
                Append(opened, "glitch_dataset"))
    ELSE IF ~(a.glitch_frac = 0)
         THEN Raised("AssertionError", 104, obj, opened)
         ELSE InitCounts(a, SetAttr(obj, "glitches", None), opened)

\* lines 80-93: the waveform pool
InitWaveforms(a, obj, opened) ==
    IF a.waveform_dataset # None
    THEN IF ~(a.waveform_frac > 0)
         THEN Raised("AssertionError", 84, obj, opened)
         ELSE InitGlitches(a,
                SetAttr(obj, "waveforms", a.waveform_dataset),
                Append(opened, "waveform_dataset"))
    ELSE IF ~(a.waveform_frac = 0)
         THEN Raised("AssertionError", 92, obj, opened)
         ELSE InitGlitches(a, SetAttr(obj, "waveforms", None), opened)

\* lines 52-78 without the assertion of line 78
InitBackgroundsUnchecked(a, obj, opened) ==
    InitWaveforms(a,
        SetAttr(SetAttr(SetAttr(obj,
            "hanford_background", a.hanford_background),
            "livingston_background", a.livingston_background),
            "whitening_filter", <<"hanford", "livingston">>),
        opened \o <<"hanford_background", "livingston_background">>)

\* lines 52-78: the backgrounds, their filters, and the check of their lengths
InitBackgrounds(a, obj, opened) ==
    LET loaded ==
            SetAttr(SetAttr(SetAttr(obj,
                "hanford_background", a.hanford_background),
                "livingston_background", a.livingston_background),
                "whitening_filter", <<"hanford", "livingston">>)
        files == opened \o <<"hanford_background", "livingston_background">>
    IN  IF ~(loaded.hanford_background = loaded.livingston_background)
        THEN Raised("AssertionError", 78, loaded, files)
        ELSE InitWaveforms(a, loaded, files)

\* lines 42-50 without the assertion of line 50
InitFractionsUnsummed(a, obj, opened) ==
    IF ~(0 <= a.waveform_frac /\ a.waveform_frac <= FracDen)
    THEN Raised("AssertionError", 43, obj, opened)
    ELSE IF ~(0 <= a.glitch_frac /\ a.glitch_frac <= FracDen)
    THEN Raised("AssertionError", 44, obj, opened)
    ELSE InitBackgrounds(a, obj, opened)

\* lines 42-50: the checks of the fractions
InitFractions(a, obj, opened) ==
    IF ~(0 <= a.waveform_frac /\ a.waveform_frac <= FracDen)
    THEN Raised("AssertionError", 43, obj, opened)
    ELSE IF ~(0 <= a.glitch_frac /\ a.glitch_frac <= FracDen)
    THEN Raised("AssertionError", 44, obj, opened)
    ELSE IF ~(a.waveform_frac + a.glitch_frac <= FracDen)
    THEN Raised("AssertionError", 50, obj, opened)
    ELSE InitBackgrounds(a, obj, opened)

\* RandomWaveformDataset(...): one call of the constructor on a new instance
Construct ==
    /\ ~call.made
    /\ \E a \in CtorArgs :
        LET r == InitFractions(a, NoAttrs, <<>>)
        IN  /\ call' = [made |-> TRUE, outcome |-> r.outcome, line |-> r.line,
                         args |-> a]
            /\ self' = r.self
            /\ reads' = r.reads
            /\ ret' = [NoRet EXCEPT !.op = "__init__",
                                    !.outcome = r.outcome, !.line = r.line]
    /\ UNCHANGED <<it, whitener, trainer>>

\* before the constructor is called
InitCtor ==
    /\ self = NoAttrs
    /\ call = NoCall
    /\ reads = <<>>
    /\ it = [h \in Handles |-> FALSE]
    /\ ret = NoRet
    /\ whitener = NoWhitener
    /\ trainer = NoTrainer

NextCtor == Construct

-----------------------------------------------------------------------------
(* numpy's sampling calls *)

\* the sequences of length n over S
SeqsOf(S, n) == [1 .. n -> S]

\* a sequence without a repeated element
Distinct(q) == \A i, j \in DOMAIN q : i # j => q[i] # q[j]

\* np.random.choice(a, size=size, replace=False) raises ValueError
ChoiceRaises(a, size) == a < 0 \/ size > a

\* np.random.choice(a, size=size, replace=True): what it may return
ChoiceWithReplacement(a, size) == SeqsOf(0 .. (a - 1), size)

\* np.random.choice(a, size=size, replace=False): what it may return
Choice(a, size) == {q \in SeqsOf(0 .. (a - 1), size) : Distinct(q)}

\* np.random.randint(n) raises ValueError
RandintRaises(n) == n <= 0

\* np.random.randint(n): what it may return
Randint(n) == 0 .. (n - 1)

-----------------------------------------------------------------------------
(* RandomWaveformDataset: sampling *)

\* a kernel_size stretch of series `src` (example i of it) starting at `start`
Cell(src, i, start) == [src |-> src, i |-> i, start |-> start, white |-> FALSE]

\* a call that raised `exc` at `line`
Raise(exc, line) == [outcome |-> exc, line |-> line]

\* a call that returned `value`
Return(value) == [outcome |-> "returned", line |-> 0, value |-> value]

\* sample_from_array(array, N), lines 120-138, for the attribute `name` that
\* holds `array`: every result the call may have
sample_from_array(obj, name, N) ==
    LET array == obj[name]
    IN  IF array.kind # "array"
        THEN \* len() of None or of a dataset whose file is closed
             {Raise(IF array.kind = "None" THEN "TypeError" ELSE "ValueError", 123)}
        ELSE IF ChoiceRaises(array.count, N)
        THEN {Raise("ValueError", 123)}
        ELSE IF N > 0 /\ RandintRaises(array.length - obj.kernel_size)
        THEN {Raise("ValueError", 130)}
        ELSE {Return([k \in 1 .. N |-> Cell(name, idx[k], start[k])]) :
                idx \in Choice(array.count, N),
                start \in SeqsOf(Randint(array.length - obj.kernel_size), N)}

\* lines 155-166: the windows at the offsets drawn, one row per pair
Windows(hanford_start, livingston_start) ==
    [r \in DOMAIN hanford_start |->
        <<Cell("hanford_background", 0, hanford_start[r]),
          Cell("livingston_background", 0, livingston_start[r])>>]

\* sample_from_background(independent), lines 140-166: every result
sample_from_background(obj, independent) ==
    IF ChoiceRaises(obj.hanford_background - obj.kernel_size, obj.batch_size)
    THEN {Raise("ValueError", 141)}
    ELSE IF independent
            /\ ChoiceRaises(obj.livingston_background - obj.kernel_size,
                            obj.batch_size)
    THEN {Raise("ValueError", 147)}
    ELSE UNION {
            {Return(Windows(hanford_start, livingston_start)) :
                livingston_start \in
                    IF independent
                    THEN Choice(obj.livingston_background - obj.kernel_size,
                                obj.batch_size)
                    ELSE {hanford_start}} :
            hanford_start \in
                Choice(obj.hanford_background - obj.kernel_size, obj.batch_size)}

-----------------------------------------------------------------------------
(* RandomWaveformDataset: iteration *)

\* __iter__, lines 116-118: the instance after the call
iter(obj) == SetAttr(obj, "_batch_idx", 0)

\* torch.stack raises RuntimeError on an empty list
StackRaises(samples) == Len(samples) = 0

\* X[first:last, channel] = samples (rows counted from 0, last excluded)
Overwrite(X, first, last, channel, samples) ==
    [r \in DOMAIN X |->
        IF first < r /\ r <= last
        THEN [X[r] EXCEPT ![channel + 1] = samples[r - first]]
        ELSE X[r]]

\* lines 206-214: the livingston glitches, after the hanford ones
LivingstonGlitches(obj, X, num_hanford) ==
    IF ~Has(obj, "livingston_glitches")
    THEN {Raise("AttributeError", 210)}
    ELSE UNION {
        IF g.outcome # "returned" THEN {g}
        ELSE IF StackRaises(g.value) THEN {Raise("RuntimeError", 212)}
        ELSE {Return(Overwrite(X, num_hanford, obj.num_glitches, 1, g.value))} :
        g \in sample_from_array(obj, "livingston_glitches",
                                 obj.num_glitches - num_hanford)}

\* lines 198-204: the hanford glitches
HanfordGlitches(obj, X, num_hanford) ==
    IF ~Has(obj, "hanford_glitches")
    THEN {Raise("AttributeError", 202)}
    ELSE UNION {
        IF g.outcome # "returned" THEN {g}
        ELSE IF StackRaises(g.value) THEN {Raise("RuntimeError", 204)}
        ELSE LivingstonGlitches(
                obj, Overwrite(X, 0, num_hanford, 0, g.value), num_hanford) :
        g \in sample_from_array(obj, "hanford_glitches", num_hanford)}

\* lines 190-214: the glitch step on the batch X
GlitchStep(obj, X) ==
    IF ~Has(obj, "glitches")
    THEN {Raise("AttributeError", 192)}
    ELSE IF obj.glitches = None
    THEN {Return(X)}
    ELSE IF RandintRaises(obj.num_glitches)
    THEN {Raise("ValueError", 195)}
    ELSE UNION {HanfordGlitches(obj, X, num_hanford) :
                    num_hanford \in Randint(obj.num_glitches)}

\* inject_waveforms, lines 168-170
inject_waveforms(background, waveforms) == Raise("NotImplementedError", 170)

\* y[-num:] = 1 on a vector y (Python: -0 is 0, so num = 0 names every entry)
SetLast(y, num) ==
    LET first == IF num = 0 \/ num > Len(y) THEN 0 ELSE Len(y) - num
    IN  [k \in DOMAIN y |-> IF k > first THEN 1 ELSE y[k]]

\* X[-num:]: the rows the same slice names
LastRows(X, num) ==
    LET first == IF num = 0 \/ num > Len(X) THEN 0 ELSE Len(X) - num
    IN  SubSeq(X, first + 1, Len(X))

\* lines 216-223: the waveform step on the batch X with labels y
WaveformStep(obj, X, y) ==
    IF obj.waveforms = None
    THEN {Return([X |-> X, y |-> y])}
    ELSE UNION {
        IF w.outcome # "returned" THEN {w}
        ELSE LET injected == inject_waveforms(LastRows(X, obj.num_waveforms),
                                              w.value)
             IN  IF injected.outcome # "returned" THEN {injected}
                 ELSE {Return([X |-> X, y |-> SetLast(y, obj.num_waveforms)])} :
        w \in sample_from_array(obj, "waveforms", obj.num_waveforms)}

\* whiten, lines 172-177: every cell filtered
whiten(X) == [r \in DOMAIN X |-> [c \in DOMAIN X[r] |-> [X[r][c] EXCEPT !.white = TRUE]]]

\* lines 186-226: the batch composed on the background windows X
Compose(obj, X) ==
    LET y == [k \in 1 .. obj.batch_size |-> 0]
    IN  UNION {
            IF g.outcome # "returned" THEN {g}
            ELSE UNION {
                IF w.outcome # "returned" THEN {w}
                ELSE {Return([X |-> whiten(w.value.X), y |-> w.value.y])} :
                w \in WaveformStep(obj, g.value, y)} :
            g \in GlitchStep(obj, X)}

\* __next__, lines 179-226: every result the call may have
next(obj) ==
    IF ~Has(obj, "_batch_idx")
    THEN {Raise("AttributeError", 180)}
    ELSE IF obj._batch_idx >= obj.batches_per_epoch
    THEN {Raise("StopIteration", 181)}
    ELSE UNION {
            IF b.outcome # "returned" THEN {b} ELSE Compose(obj, b.value) :
            b \in sample_from_background(obj, TRUE)}

\* __next__ with `self._batch_idx += 1` before it returns the batch
AfterNextAdvancing(obj, r) ==
    IF r.outcome = "returned"
    THEN SetAttr(obj, "_batch_idx", obj._batch_idx + 1)
    ELSE obj

\* __next__ that takes the windows of a returned batch out of the stored
\* backgrounds
AfterNextConsuming(obj, r) ==
    IF r.outcome = "returned"
    THEN SetAttr(SetAttr(obj,
            "hanford_background", obj.hanford_background - obj.kernel_size),
            "livingston_background", obj.livingston_background - obj.kernel_size)
    ELSE obj

\* __next__, lines 179-226: the instance after the call that had result r
AfterNext(obj, r) == obj

-----------------------------------------------------------------------------
(* The calls made on a constructed dataset *)

\* a caller that uses the dataset itself as the iterator, without iter()
Direct == 0

\* the constructor returned the instance to its caller
Constructed == call.made /\ call.outcome = "returned"

\* iter(dataset) by caller h, as a for-loop over the dataset starts with
Iter(h) ==
    /\ Constructed
    /\ self' = iter(self)
    /\ it' = [it EXCEPT ![h] = TRUE]
    /\ ret' = [NoRet EXCEPT !.op = "__iter__", !.handle = h,
                            !.outcome = "returned", !.line = 118]
    /\ UNCHANGED <<call, reads, whitener, trainer>>

\* next(iterator) by caller h
Next(h) ==
    /\ Constructed
    /\ IF h = Direct THEN TRUE ELSE it[h]
    /\ \E r \in next(self) :
        /\ self' = AfterNext(self, r)
        /\ ret' = [NoRet EXCEPT
                    !.op = "__next__", !.handle = h,
                    !.idx = IF Has(self, "_batch_idx") THEN self._batch_idx ELSE 0,
                    !.outcome = r.outcome, !.line = r.line,
                    !.X = IF r.outcome = "returned" THEN r.value.X ELSE <<>>,
                    !.y = IF r.outcome = "returned" THEN r.value.y ELSE <<>>]
    /\ UNCHANGED <<call, reads, it, whitener, trainer>>

\* dataset.sample_from_background(independent)
SampleFromBackground(independent) ==
    /\ Constructed
    /\ \E r \in sample_from_background(self, independent) :
        ret' = [NoRet EXCEPT
                    !.op = "sample_from_background", !.independent = independent,
                    !.outcome = r.outcome, !.line = r.line,
                    !.X = IF r.outcome = "returned" THEN r.value ELSE <<>>]
    /\ UNCHANGED <<self, call, reads, it, whitener, trainer>>

\* the attributes that hold an array of examples
Pools == {name \in {"waveforms", "hanford_glitches"} :
            Has(self, name) /\ self[name].kind = "array"}

\* dataset.sample_from_array(dataset.<name>, N)
SampleFromArray(name, N) ==
    /\ Constructed
    /\ name \in Pools
    /\ \E r \in sample_from_array(self, name, N) :
        ret' = [NoRet EXCEPT
                    !.op = "sample_from_array", !.array = name, !.N = N,
                    !.outcome = r.outcome, !.line = r.line,
                    !.samples = IF r.outcome = "returned" THEN r.value ELSE <<>>]
    /\ UNCHANGED <<self, call, reads, it, whitener, trainer>>

\* an instance that holds the fraction arguments as attributes
WithFractions(a) ==
    SetAttr(SetAttr(NoAttrs, "waveform_frac", a.waveform_frac),
            "glitch_frac", a.glitch_frac)

\* a dataset whose constructor ran to its end: the attributes lines 42-114
\* assign when lines 109-110 find the fraction arguments on the instance
InitData ==
    /\ \E a \in CtorArgs :
        LET r == InitFractions(a, WithFractions(a), <<>>)
        IN  /\ r.outcome = "returned"
            /\ self = r.self
            /\ call = [made |-> TRUE, outcome |-> r.outcome, line |-> r.line,
                        args |-> a]
            /\ reads = r.reads
    /\ it = [h \in Handles |-> FALSE]
    /\ ret = [NoRet EXCEPT !.op = "__init__", !.outcome = "returned", !.line = 114]
    /\ whitener = NoWhitener
    /\ trainer = NoTrainer

NextData ==
    \/ \E h \in Handles : Iter(h)
    \/ \E h \in Handles \cup {Direct} : Next(h)
    \/ \E independent \in BOOLEAN : SampleFromBackground(independent)
    \/ \E name \in {"waveforms", "hanford_glitches"}, N \in 0 .. (MaxPool + 1) :
            SampleFromArray(name, N)

\* the calls on a constructed dataset
Spec == InitData /\ [][NextData]_vars

\* a constructor call on a new instance, beside the datasets a constructor
\* call leaves when it runs to its end
Init == InitCtor \/ InitData

SpecCtor == Init /\ [][NextCtor]_vars

\* a dataset constructed without waveform and glitch sources
InitBackground ==
    /\ InitData
    /\ call.args.waveform_dataset = None
    /\ call.args.glitch_dataset = None

NextBackground == \E independent \in BOOLEAN : SampleFromBackground(independent)

\* sample_from_background on a dataset of background only
SpecBackground == InitBackground /\ [][NextBackground]_vars

NextIter ==
    \/ \E h \in Handles : Iter(h)
    \/ \E h \in Handles \cup {Direct} : Next(h)

\* the iteration of a dataset by its callers
SpecIter == InitData /\ [][NextIter]_vars

-----------------------------------------------------------------------------
(* WhiteningTransform *)

DEFAULT_FFTLENGTH == 2

\* a time domain filter of one channel: the background series it was fitted
\* on (0: none, the zeros of the constructor) and its number of taps
Kernel(background, ntaps) == [background |-> background, taps |-> ntaps]

\* Transform.add_parameter: the parameter that holds the array
add_parameter(array) == array

\* Transform.set_value: the parameter after it is given the value
set_value(parameter, value) == value

\* __init__, lines 12-29: the instance constructed
WhiteningInit(num_ifos, sample_rate, kernel_length, fftlength) ==
    [num_ifos |-> num_ifos,
     sample_rate |-> sample_rate,
     kernel_length |-> kernel_length,
     fftlength |-> fftlength,
     time_domain_filter |->
        add_parameter([i \in 1 .. num_ifos |-> Kernel(0, fftlength * sample_rate)]),
     window |-> fftlength * sample_rate]

\* fit without the check of lines 45-51
fitUnchecked(obj, backgrounds) ==
    LET ntaps == obj.fftlength * obj.sample_rate
        tdf == [i \in DOMAIN backgrounds |-> Kernel(backgrounds[i], ntaps)]
    IN  [outcome |-> "returned", line |-> 68,
         self |-> [obj EXCEPT
                    !.time_domain_filter = set_value(obj.time_domain_filter, tdf)]]

\* fit(*backgrounds), lines 40-68: the result and the instance after the call
fit(obj, backgrounds) ==
    IF Len(backgrounds) # Len(obj.time_domain_filter)
    THEN [outcome |-> "ValueError", line |-> 46, self |-> obj]
    ELSE LET ntaps == obj.fftlength * obj.sample_rate
             tdf == [i \in DOMAIN backgrounds |-> Kernel(backgrounds[i], ntaps)]
         IN  [outcome |-> "returned", line |-> 68,
              self |-> [obj EXCEPT
                    !.time_domain_filter = set_value(obj.time_domain_filter, tdf)]]

\* the argument lists of a call of fit: up to MaxIfos + 1 background series
FitArgs == UNION {SeqsOf(1 .. MaxSeries, n) : n \in 0 .. (MaxIfos + 1)}

\* whitener.fit(*backgrounds)
Fit ==
    /\ \E backgrounds \in FitArgs :
        LET r == fit(whitener, backgrounds)
        IN  /\ whitener' = r.self
            /\ ret' = [NoRet EXCEPT !.op = "fit", !.backgrounds = backgrounds,
                                    !.outcome = r.outcome, !.line = r.line]
    /\ UNCHANGED <<self, call, reads, it, trainer>>

\* X *= self.window, line 79, raises RuntimeError: a window of `window`
\* samples does not broadcast onto a last dimension of `size` samples
WindowRaises(window, size) == window # size /\ window # 1

\* forward(X), lines 70-92, on a batch X of shape <<batch, channels, size>>:
\* the result and the instance after the call
forward(obj, shape) ==
    IF WindowRaises(obj.window, shape[3])
    THEN [outcome |-> "RuntimeError", line |-> 79, self |-> obj]
    ELSE IF shape[2] # obj.num_ifos
    THEN [outcome |-> "RuntimeError", line |-> 86, self |-> obj]
    ELSE [outcome |-> "returned", line |-> 92, self |-> obj]

\* the shapes of the batches handed to forward
Shapes == {<<1, c, size>> : c \in 1 .. MaxIfos, size \in 1 .. (MaxKernel * MaxRate)}

\* whitener(X)
Forward ==
    /\ \E shape \in Shapes :
        LET r == forward(whitener, shape)
        IN  /\ whitener' = r.self
            /\ ret' = [NoRet EXCEPT !.op = "forward", !.shape = shape,
                                    !.outcome = r.outcome, !.line = r.line]
    /\ UNCHANGED <<self, call, reads, it, trainer>>

\* a WhiteningTransform as constructed
InitWhiten ==
    /\ \E num_ifos \in 1 .. MaxIfos, sample_rate \in 1 .. MaxRate,
          kernel_length \in 1 .. MaxKernel :
        whitener = WhiteningInit(num_ifos, sample_rate, kernel_length,
                                 DEFAULT_FFTLENGTH)
    /\ self = NoAttrs
    /\ call = NoCall
    /\ reads = <<>>
    /\ it = [h \in Handles |-> FALSE]
    /\ ret = NoRet
    /\ trainer = NoTrainer

NextWhiten == Fit \/ Forward

SpecWhiten == InitWhiten /\ [][NextWhiten]_vars

-----------------------------------------------------------------------------
(* train: the epoch loop *)

\* np.inf, line 310: above every validation loss
Inf == MaxLoss + 1

\* the validation losses train_for_one_epoch may return
Losses == 0 .. MaxLoss

\* lines 310-312: the local variables before the first epoch
TrainInit(max_epochs, early_stop) ==
    [max_epochs |-> max_epochs,
     early_stop |-> early_stop,
     epoch |-> 0,
     best_valid_loss |-> Inf,
     since_last_improvement |-> 0,
     valid_loss |-> <<>>,
     saved |-> <<>>,
     halted |-> FALSE,
     returned |-> FALSE]

\* the loop body with `<=` for the `<` of line 353
EpochBodyLenient(t, valid_loss) ==
    LET seen == [t EXCEPT !.epoch = t.epoch + 1,
                          !.valid_loss = Append(t.valid_loss, valid_loss)]
    IN  IF valid_loss <= t.best_valid_loss
        THEN [seen EXCEPT !.best_valid_loss = valid_loss,
                          !.saved = Append(t.saved, TRUE),
                          !.since_last_improvement = 0]
        ELSE [seen EXCEPT !.saved = Append(t.saved, FALSE),
                          !.since_last_improvement = t.since_last_improvement + 1,
                          !.halted = t.since_last_improvement + 1 >= t.early_stop]

\* lines 327-370: one pass of the loop body, in which train_for_one_epoch
\* returns valid_loss; saved[k] tells whether epoch k saved the weights
EpochBody(t, valid_loss) ==
    LET seen == [t EXCEPT !.epoch = t.epoch + 1,
                          !.valid_loss = Append(t.valid_loss, valid_loss)]
    IN  IF valid_loss < t.best_valid_loss
        THEN [seen EXCEPT !.best_valid_loss = valid_loss,
                          !.saved = Append(t.saved, TRUE),
                          !.since_last_improvement = 0]
        ELSE [seen EXCEPT !.saved = Append(t.saved, FALSE),
                          !.since_last_improvement = t.since_last_improvement + 1,
                          !.halted = t.since_last_improvement + 1 >= t.early_stop]

\* one epoch: `for epoch in range(max_epochs)` has an epoch left and no
\* break was taken
TrainEpoch ==
    /\ ~trainer.returned
    /\ ~trainer.halted
    /\ trainer.epoch < trainer.max_epochs
    /\ \E valid_loss \in Losses : trainer' = EpochBody(trainer, valid_loss)
    /\ UNCHANGED <<self, call, reads, it, ret, whitener>>

\* line 372: the loop has ended, by exhaustion or by break
TrainReturn ==
    /\ ~trainer.returned
    /\ trainer.halted \/ trainer.epoch = trainer.max_epochs
    /\ trainer' = [trainer EXCEPT !.returned = TRUE]
    /\ UNCHANGED <<self, call, reads, it, ret, whitener>>

\* train(...) has reached its epoch loop
InitTrain ==
    /\ \E max_epochs \in 0 .. MaxEpochs, early_stop \in 0 .. MaxEarlyStop :
        trainer = TrainInit(max_epochs, early_stop)
    /\ self = NoAttrs
    /\ call = NoCall
    /\ reads = <<>>
    /\ it = [h \in Handles |-> FALSE]
    /\ ret = NoRet
    /\ whitener = NoWhitener

NextTrain == TrainEpoch \/ TrainReturn

SpecTrain == InitTrain /\ [][NextTrain]_vars

-----------------------------------------------------------------------------
(* Properties of the dataset *)

\* both fractions lie in [0, 1] and their sum is at most 1
FractionsValid(a) ==
    /\ 0 <= a.waveform_frac /\ a.waveform_frac <= FracDen
    /\ 0 <= a.glitch_frac /\ a.glitch_frac <= FracDen
    /\ a.waveform_frac + a.glitch_frac <= FracDen

\* the label vector of a batch whose last k rows carry a waveform
Labels(size, k) == [r \in 1 .. size |-> IF r > size - k THEN 1 ELSE 0]

C4_BadFractionsFailFirst ==
    (call.made /\ ~FractionsValid(call.args)) =>
        /\ call.outcome = "AssertionError"
        /\ reads = <<>>
        /\ self = NoAttrs

\* C4, witness: a call with both fractions in [0, 1] and a sum above 1 failed
C4_Witness ==
    /\ call.made
    /\ call.args.waveform_frac \in 0 .. FracDen
    /\ call.args.glitch_frac \in 0 .. FracDen
    /\ call.args.waveform_frac + call.args.glitch_frac > FracDen
    /\ call.outcome = "AssertionError"

\* C5: a constructor call fails with an AssertionError when a source comes
\* with a zero fraction or a nonzero fraction comes without a source, and it
\* returns a dataset when every source comes with a nonzero fraction, at
\* least one source is given and the other arguments are valid.
C5_SourceMatchesFraction ==
    call.made =>
        LET a == call.args
            mismatch ==
                \/ a.waveform_dataset # None /\ a.waveform_frac = 0
                \/ a.waveform_dataset = None /\ a.waveform_frac # 0
                \/ a.glitch_dataset # None /\ a.glitch_frac = 0
                \/ a.glitch_dataset = None /\ a.glitch_frac # 0
            matched ==
                /\ FractionsValid(a)
                /\ a.hanford_background = a.livingston_background
                /\ a.waveform_dataset # None <=> a.waveform_frac > 0
                /\ a.glitch_dataset # None <=> a.glitch_frac > 0
                /\ a.waveform_dataset # None \/ a.glitch_dataset # None
        IN  /\ mismatch => call.outcome = "AssertionError"
            /\ matched => call.outcome = "returned"

\* the start offsets of channel c of the windows X
Starts(X, c) == [r \in DOMAIN X |-> X[r][c].start]

-----------------------------------------------------------------------------
(* Properties of the whitening transform *)

-----------------------------------------------------------------------------
(* Properties of the stored data *)

\* the attributes that hold the data loaded by the constructor
Stored ==
    {"hanford_background", "livingston_background", "whitening_filter",
     "waveforms", "glitches", "hanford_glitches", "livingston_glitches"}

C12_WindowFitsKernel ==
    /\ Len(whitener.time_domain_filter) = whitener.num_ifos
    /\ \A i \in 1 .. whitener.num_ifos :
            whitener.time_domain_filter[i].taps
                = whitener.fftlength * whitener.sample_rate
    /\ whitener.window = whitener.kernel_length * whitener.sample_rate
    /\ (/\ ret.op = "forward"
        /\ ret.shape[2] = whitener.num_ifos
        /\ ret.shape[3] = whitener.kernel_length * whitener.sample_rate)
       => ret.outcome = "returned"

-----------------------------------------------------------------------------
(* Properties of the glitch and waveform steps *)

\* row r of the batch X carries a glitch in one of its channels
CarriesGlitch(X, r) ==
    \E c \in DOMAIN X[r] : X[r][c].src \in {"hanford_glitches", "livingston_glitches"}

\* a next() by a caller that holds an iterator, below batches_per_epoch, on a
\* dataset with background enough for a batch
ComposingNext ==
    /\ ret.op = "__next__"
    /\ ret.handle # Direct
    /\ ret.idx < self.batches_per_epoch
    /\ self.batch_size <= self.hanford_background - self.kernel_size

\* the glitch pool read by the constructor has examples enough for the
\* glitches of a batch, each longer than a kernel
GlitchesSuffice ==
    /\ Has(self, "hanford_glitches")
    /\ self.num_glitches > 0
    /\ self.num_glitches <= self.hanford_glitches.count
    /\ self.hanford_glitches.length > self.kernel_size

-----------------------------------------------------------------------------
(* Properties of the epoch loop *)

\* the validation loss of epoch k is strictly below that of every earlier epoch
Improving(h, k) == \A j \in 1 .. (k - 1) : h[k] < h[j]

\* the number of epochs run since the last improving one
SinceImproved(h) ==
    LET improving == {k \in 1 .. Len(h) : Improving(h, k)}
    IN  IF improving = {} THEN Len(h)
        ELSE Len(h) - (CHOOSE k \in improving : \A j \in improving : j <= k)

=============================================================================
